---- MODULE Spec2Model ----
(***************************************************************************)
(* Model of the Ansible syslog callback plugin, syslog_callback.py:        *)
(* CallbackModule translates playbook lifecycle events into syslog         *)
(* messages and hands each one to a UDP socket.                            *)
(*                                                                         *)
(* The program state is the loaded configuration and the _playbook_name    *)
(* attribute.  Each callback is one action; what it handed to the socket   *)
(* and the exception it ended with (if any) are recorded in sent/raised    *)
(* until the event source moves on to its next event.                      *)
(***************************************************************************)
EXTENDS Integers, Sequences, FiniteSets, TLC

VARIABLES
    config,          \* self.config, the Box built by _load_config
    playbook_name,   \* self._playbook_name, NoAttribute until v2_playbook_on_start
    pc,              \* "idle": between two callbacks; "returned": a callback has ended
    call,            \* the callback that ended last, with its arguments
    sent,            \* the datagrams that callback gave to sendto, in order
    raised,          \* the exception that callback ended with, or NoException
    returned         \* the value a make_priority call returned

vars == <<config, playbook_name, pc, call, sent, raised, returned>>

----------------------------------------------------------------------------
(* Bounds of the model *)

\* number of target hosts a run can have
NumHosts == 2
\* largest 'retries' value of a retry result
MaxRetries == 1
\* largest raw facility code given to make_priority
MaxFacilityInput == 25
\* largest raw level code given to make_priority
MaxLevelInput == 9

----------------------------------------------------------------------------
(* Class constants and tables *)

DEFAULT_FACILITY == "user"
DEFAULT_TAG == "ansible"
DEFAULT_HOST == "localhost"
DEFAULT_PORT == 514

syslog_levels ==
    [LOG_EMERG |-> 0, LOG_ALERT |-> 1, LOG_CRIT |-> 2, LOG_ERR |-> 3,
     LOG_WARNING |-> 4, LOG_NOTICE |-> 5, LOG_INFO |-> 6, LOG_DEBUG |-> 7]

level_defaults ==
    [playbook_start |-> "LOG_INFO", play_start |-> "LOG_INFO",
     task_start |-> "LOG_DEBUG", ok |-> "LOG_INFO", changed |-> "LOG_INFO",
     failed |-> "LOG_ERR", unreachable |-> "LOG_EMERG",
     skipped |-> "LOG_NOTICE", retry |-> "LOG_WARNING",
     item_ok |-> "LOG_INFO", item_failed |-> "LOG_ERR",
     item_skipped |-> "LOG_NOTICE", summary_start |-> "LOG_INFO",
     summary_host |-> "LOG_INFO", summary_complete |-> "LOG_INFO"]

syslog_facilities ==
    [kern |-> 0, user |-> 1, mail |-> 2, daemon |-> 3, auth |-> 4,
     syslog |-> 5, lpr |-> 6, news |-> 7, uucp |-> 8, cron |-> 9,
     authpriv |-> 10, ftp |-> 11, ntp |-> 12, log_audit |-> 13,
     log_alert |-> 14, clock |-> 15, local0 |-> 16, local1 |-> 17,
     local2 |-> 18, local3 |-> 19, local4 |-> 20, local5 |-> 21,
     local6 |-> 22, local7 |-> 23]

\* Exceptions a callback can end with
NoException == "none"
KeyError == "KeyError"
AttributeError == "AttributeError"
SocketError == "OSError"

\* A string that is in neither table
UnknownName == "LOG_BOGUS"

----------------------------------------------------------------------------
(* make_priority *)

\* Python's a | b on non-negative integers
RECURSIVE BitOr(_, _)
BitOr(a, b) ==
    IF a = 0 THEN b
    ELSE IF b = 0 THEN a
    ELSE (IF a % 2 = 1 \/ b % 2 = 1 THEN 1 ELSE 0)
         + 2 * BitOr(a \div 2, b \div 2)

\* Python's a << n on non-negative integers
ShiftLeft(a, n) == a * (2 ^ n)

\* An argument of make_priority is an int or a str
IntArg(n) == [int |-> TRUE, n |-> n, s |-> ""]
StrArg(s) == [int |-> FALSE, n |-> 0, s |-> s]

Returned(v) == [raised |-> NoException, value |-> v]
Raised(e) == [raised |-> e, value |-> -1]

\* the mutant shifts the facility by two bits instead of three
make_priority_shift2(facility, level) ==
    IF ~facility.int /\ facility.s \notin DOMAIN syslog_facilities
    THEN Raised(KeyError)
    ELSE IF ~level.int /\ level.s \notin DOMAIN syslog_levels
    THEN Raised(KeyError)
    ELSE LET facility_code == IF facility.int THEN facility.n
                              ELSE syslog_facilities[facility.s]
             level_code == IF level.int THEN level.n
                           ELSE syslog_levels[level.s]
         IN Returned(BitOr(ShiftLeft(facility_code, 2), level_code))

make_priority(facility, level) ==
    IF ~facility.int /\ facility.s \notin DOMAIN syslog_facilities
    THEN Raised(KeyError)
    ELSE IF ~level.int /\ level.s \notin DOMAIN syslog_levels
    THEN Raised(KeyError)
    ELSE LET facility_code == IF facility.int THEN facility.n
                              ELSE syslog_facilities[facility.s]
             level_code == IF level.int THEN level.n
                           ELSE syslog_levels[level.s]
         IN Returned(BitOr(ShiftLeft(facility_code, 3), level_code))

----------------------------------------------------------------------------
(* Configuration: __init__ and _load_config *)

EventTypes == DOMAIN level_defaults

\* The process environment: at most one ANSIBLE_SYSLOG_* variable is set.
\* var is "" (none), "FACILITY", or "LEVEL" with key naming the event type.
NoEnv == [var |-> "", key |-> "", val |-> ""]

LevelValues == DOMAIN syslog_levels \cup {UnknownName}
FacilityValues == {"local0", "nosuchfacility"}

Environments ==
    {NoEnv}
    \cup {[var |-> "FACILITY", key |-> "", val |-> v] : v \in FacilityValues}
    \cup {[var |-> "LEVEL", key |-> k, val |-> v] :
              k \in EventTypes, v \in LevelValues}

\* config['level_<event_type>'] is modelled as config.level[event_type]
load_config(env) ==
    [syslog_host |-> DEFAULT_HOST,
     syslog_port |-> DEFAULT_PORT,
     syslog_facility |-> IF env.var = "FACILITY" THEN env.val
                         ELSE DEFAULT_FACILITY,
     tag |-> DEFAULT_TAG,
     debug |-> FALSE,
     level |-> [k \in EventTypes |->
                  IF env.var = "LEVEL" /\ env.key = k THEN env.val
                  ELSE level_defaults[k]]]

\* _get_log_level: the level name is looked up when the event is handled
get_log_level(cfg, event_type) ==
    IF cfg.level[event_type] \in DOMAIN syslog_levels
    THEN Returned(syslog_levels[cfg.level[event_type]])
    ELSE Raised(KeyError)

----------------------------------------------------------------------------
(* Messages *)

\* self._playbook_name does not exist before v2_playbook_on_start
NoAttribute == "<no attribute>"
\* a part the message text does not have
Absent == "<absent>"

\* The text of a message, as the parts its f-string joins.  subject is what
\* the text is about: "playbook", "play", "task", "runner" (target_host=...
\* task=...) or "playbook_summary".
Message(run, subject, status) ==
    [run |-> run, subject |-> subject, name |-> Absent,
     target_host |-> Absent, item |-> Absent, status |-> status,
     error |-> Absent, reason |-> Absent, attempt |-> -1,
     total_tasks |-> -1, summary |-> <<>>]

\* Each string the callbacks handle, as its code points
codes ==
    "test_playbook.yml" :> <<116, 101, 115, 116, 95, 112, 108, 97, 121, 98,
         111, 111, 107, 46, 121, 109, 108>>
    @@ "site.yml" :> <<115, 105, 116, 101, 46, 121, 109, 108>>
    @@ "Test Play - Setup servers" :> <<84, 101, 115, 116, 32, 80, 108, 97,
         121, 32, 45, 32, 83, 101, 116, 117, 112, 32, 115, 101, 114, 118,
         101, 114, 115>>
    @@ "Unnamed play" :> <<85, 110, 110, 97, 109, 101, 100, 32, 112, 108,
         97, 121>>
    @@ "Deploy \"web tier\"" :> <<68, 101, 112, 108, 111, 121, 32, 34, 119,
         101, 98, 32, 116, 105, 101, 114, 34>>
    @@ "Install nginx" :> <<73, 110, 115, 116, 97, 108, 108, 32, 110, 103,
         105, 110, 120>>
    @@ "Run \"apt update\"" :> <<82, 117, 110, 32, 34, 97, 112, 116, 32,
         117, 112, 100, 97, 116, 101, 34>>
    @@ "web01" :> <<119, 101, 98, 48, 49>>
    @@ "db01" :> <<100, 98, 48, 49>>
    @@ "web" :> <<119, 101, 98>>
    @@ "app01" :> <<97, 112, 112, 48, 49>>
    @@ "started" :> <<115, 116, 97, 114, 116, 101, 100>>
    @@ "ok" :> <<111, 107>>
    @@ "changed" :> <<99, 104, 97, 110, 103, 101, 100>>
    @@ "failed" :> <<102, 97, 105, 108, 101, 100>>
    @@ "unreachable" :> <<117, 110, 114, 101, 97, 99, 104, 97, 98, 108,
         101>>
    @@ "skipped" :> <<115, 107, 105, 112, 112, 101, 100>>
    @@ "retry" :> <<114, 101, 116, 114, 121>>
    @@ "no_hosts" :> <<110, 111, 95, 104, 111, 115, 116, 115>>
    @@ "completed" :> <<99, 111, 109, 112, 108, 101, 116, 101, 100>>
    @@ "Service startup failed" :> <<83, 101, 114, 118, 105, 99, 101, 32,
         115, 116, 97, 114, 116, 117, 112, 32, 102, 97, 105, 108, 101, 100>>
    @@ "Not in debug mode" :> <<78, 111, 116, 32, 105, 110, 32, 100, 101,
         98, 117, 103, 32, 109, 111, 100, 101>>
    @@ "nginx" :> <<110, 103, 105, 110, 120>>
    @@ "failures" :> <<102, 97, 105, 108, 117, 114, 101, 115>>
    @@ "rescued" :> <<114, 101, 115, 99, 117, 101, 100>>
    @@ "ignored" :> <<105, 103, 110, 111, 114, 101, 100>>
    @@ "no_tasks" :> <<110, 111, 95, 116, 97, 115, 107, 115>>
    @@ " playbook status=" :> <<32, 112, 108, 97, 121, 98, 111, 111, 107,
         32, 115, 116, 97, 116, 117, 115, 61>>
    @@ " play=\"" :> <<32, 112, 108, 97, 121, 61, 34>>
    @@ "\" status=" :> <<34, 32, 115, 116, 97, 116, 117, 115, 61>>
    @@ " task=\"" :> <<32, 116, 97, 115, 107, 61, 34>>
    @@ " target_host=" :> <<32, 116, 97, 114, 103, 101, 116, 95, 104, 111,
         115, 116, 61>>
    @@ "\"" :> <<34>>
    @@ " item=\"" :> <<32, 105, 116, 101, 109, 61, 34>>
    @@ " status=" :> <<32, 115, 116, 97, 116, 117, 115, 61>>
    @@ " error=\"" :> <<32, 101, 114, 114, 111, 114, 61, 34>>
    @@ " reason=\"" :> <<32, 114, 101, 97, 115, 111, 110, 61, 34>>
    @@ " attempt=" :> <<32, 97, 116, 116, 101, 109, 112, 116, 61>>
    @@ " playbook_summary status=" :> <<32, 112, 108, 97, 121, 98, 111, 111,
         107, 95, 115, 117, 109, 109, 97, 114, 121, 32, 115, 116, 97, 116,
         117, 115, 61>>
    @@ " playbook_summary target_host=" :> <<32, 112, 108, 97, 121, 98, 111,
         111, 107, 95, 115, 117, 109, 109, 97, 114, 121, 32, 116, 97, 114,
         103, 101, 116, 95, 104, 111, 115, 116, 61>>
    @@ " total_tasks=" :> <<32, 116, 111, 116, 97, 108, 95, 116, 97, 115,
         107, 115, 61>>
    @@ " " :> <<32>>
    @@ "=" :> <<61>>

\* str(n) of a non-negative int
RECURSIVE Decimal(_)
Decimal(n) ==
    IF n < 10 THEN <<48 + n>> ELSE Decimal(n \div 10) \o <<48 + (n % 10)>>

\* ' '.join of f'{msgk}={msgv}' over the summary parts, or 'no_tasks'
RECURSIVE join_parts(_)
join_parts(parts) ==
    IF parts = <<>> THEN <<>>
    ELSE codes[Head(parts).k] \o codes["="] \o Decimal(Head(parts).v)
         \o (IF Tail(parts) = <<>> THEN <<>>
             ELSE codes[" "] \o join_parts(Tail(parts)))

\* The message string the f-strings of the callbacks build: every value is
\* put between the quotes as it is.
payload(m) ==
    IF m.subject = "playbook"
    THEN codes[m.run] \o codes[" playbook status="] \o codes[m.status]
    ELSE IF m.subject = "play"
    THEN codes[m.run] \o codes[" play=\""] \o codes[m.name]
         \o codes["\" status="] \o codes[m.status]
    ELSE IF m.subject = "task"
    THEN codes[m.run] \o codes[" task=\""] \o codes[m.name]
         \o codes["\" status="] \o codes[m.status]
    ELSE IF m.subject = "runner"
    THEN codes[m.run] \o codes[" target_host="] \o codes[m.target_host]
         \o codes[" task=\""] \o codes[m.name] \o codes["\""]
         \o (IF m.item # Absent
             THEN codes[" item=\""] \o codes[m.item] \o codes["\""]
             ELSE <<>>)
         \o codes[" status="] \o codes[m.status]
         \o (IF m.error # Absent
             THEN codes[" error=\""] \o codes[m.error] \o codes["\""]
             ELSE <<>>)
         \o (IF m.reason # Absent
             THEN codes[" reason=\""] \o codes[m.reason] \o codes["\""]
             ELSE <<>>)
         \o (IF m.attempt # -1
             THEN codes[" attempt="] \o Decimal(m.attempt)
             ELSE <<>>)
    ELSE IF m.target_host = Absent
    THEN codes[m.run] \o codes[" playbook_summary status="]
         \o codes[m.status]
    ELSE codes[m.run] \o codes[" playbook_summary target_host="]
         \o codes[m.target_host] \o codes[" total_tasks="]
         \o Decimal(m.total_tasks) \o codes[" "]
         \o (IF m.summary = <<>> THEN codes["no_tasks"]
             ELSE join_parts(m.summary))

\* What a callback computes: the _send_to_syslog calls it makes, in order, as
\* [level, message]; the exception its own code raises after them; and the
\* value it leaves in self._playbook_name.
Outcome(name, out, err) == [name |-> name, out |-> out, err |-> err]

Send(level, message) == [level |-> level, message |-> message]

\* _send_to_syslog_RFC3164 builds the datagram; the facility is
\* syslog_facilities.user.  Timestamp and local hostname are left out.
send_to_syslog_RFC3164(cfg, level, message) ==
    [priority |-> make_priority(IntArg(syslog_facilities.user),
                                IntArg(level)).value,
     tag |-> cfg.tag,
     message |-> message,
     text |-> payload(message)]

\* sendto raises at the failAt-th call (0: at none).  Nothing catches it, so
\* the callback ends there with the socket's exception.
Transport(cfg, o, failAt) ==
    LET n == IF failAt = 0 THEN Len(o.out) ELSE failAt - 1
    IN [sent |-> [i \in 1..n |->
                    send_to_syslog_RFC3164(cfg, o.out[i].level,
                                           o.out[i].message)],
        raised |-> IF failAt = 0 THEN o.err ELSE SocketError]

----------------------------------------------------------------------------
(* Callbacks that send one message *)

\* os.path.basename of a path given as its components
basename(file_name) == file_name[Len(file_name)]

\* v2_playbook_on_start: the name is stored before anything can raise
playbook_on_start(cfg, name, playbook) ==
    LET new == basename(playbook)
        msg == Message(new, "playbook", "started")
        level == get_log_level(cfg, "playbook_start")
    IN IF level.raised # NoException
       THEN Outcome(new, <<>>, level.raised)
       ELSE Outcome(new, <<Send(level.value, msg)>>, NoException)

\* v2_playbook_on_play_start
playbook_on_play_start(cfg, name, play) ==
    LET play_name == IF play # "" THEN play ELSE "Unnamed play"
        level == get_log_level(cfg, "play_start")
    IN IF name = NoAttribute
       THEN Outcome(name, <<>>, AttributeError)
       ELSE IF level.raised # NoException
       THEN Outcome(name, <<>>, level.raised)
       ELSE Outcome(name,
                    <<Send(level.value,
                           [Message(name, "play", "started")
                               EXCEPT !.name = play_name])>>,
                    NoException)

\* v2_playbook_on_task_start
playbook_on_task_start(cfg, name, task) ==
    LET level == get_log_level(cfg, "task_start")
    IN IF name = NoAttribute
       THEN Outcome(name, <<>>, AttributeError)
       ELSE IF level.raised # NoException
       THEN Outcome(name, <<>>, level.raised)
       ELSE Outcome(name,
                    <<Send(level.value,
                           [Message(name, "task", "started")
                               EXCEPT !.name = task])>>,
                    NoException)

----------------------------------------------------------------------------
(* Runner events *)

\* A result: _host, _task and the _result dict.  keys is the set of keys the
\* dict has; a field named by no key is not in the dict.
Result(host, task, keys, retries) ==
    [host |-> host, task |-> task, keys |-> keys,
     msg |-> IF "msg" \in keys THEN "Service startup failed" ELSE Absent,
     skip_reason |-> IF "skip_reason" \in keys THEN "Not in debug mode"
                     ELSE Absent,
     retries |-> IF "retries" \in keys THEN retries ELSE -1,
     item |-> IF "item" \in keys THEN "nginx" ELSE Absent]

\* event_data_mapping: the result key each event type reads
event_data_mapping ==
    [failed |-> "msg", unreachable |-> "msg", skipped |-> "skip_reason",
     retry |-> "retries"]

\* the message with the event's own field appended by its format function
WithEventData(m, result, event_type) ==
    IF event_type \in {"failed", "unreachable"}
    THEN [m EXCEPT !.error = result.msg]
    ELSE IF event_type = "skipped"
    THEN [m EXCEPT !.reason = result.skip_reason]
    ELSE [m EXCEPT !.attempt = result.retries + 1]

\* f'item_{event_type}' for the event types the item callbacks pass
item_level_key ==
    [ok |-> "item_ok", failed |-> "item_failed", skipped |-> "item_skipped"]

level_key(event_type, item) ==
    IF item # Absent THEN item_level_key[event_type] ELSE event_type

\* the mutant forgets the ignore_errors demotion
runner_level_no_demotion(cfg, event_type, item, ignore_errors) ==
    get_log_level(cfg, level_key(event_type, item))

\* "Determine log level" in _log_runner_event
runner_level(cfg, event_type, item, ignore_errors) ==
    IF event_type = "failed" /\ ignore_errors
    THEN Returned(syslog_levels.LOG_NOTICE)
    ELSE get_log_level(cfg, level_key(event_type, item))

\* _log_runner_event; item is Absent for item=None
log_runner_event(cfg, name, result, event_type, item, ignore_errors) ==
    LET base == [Message(name, "runner", event_type)
                    EXCEPT !.target_host = result.host,
                           !.name = result.task,
                           !.item = item]
        level == runner_level(cfg, event_type, item, ignore_errors)
    IN IF name = NoAttribute
       THEN Outcome(name, <<>>, AttributeError)
       ELSE IF event_type \in DOMAIN event_data_mapping
               /\ event_data_mapping[event_type] \notin result.keys
       THEN Outcome(name, <<>>, KeyError)
       ELSE IF level.raised # NoException
       THEN Outcome(name, <<>>, level.raised)
       ELSE Outcome(name,
                    <<Send(level.value,
                           IF event_type \in DOMAIN event_data_mapping
                           THEN WithEventData(base, result, event_type)
                           ELSE base)>>,
                    NoException)

\* v2_runner_item_on_ok, _on_failed, _on_skipped: result._result['item'] is
\* read before _log_runner_event is called
runner_item_event(cfg, name, result, event_type) ==
    IF "item" \notin result.keys
    THEN Outcome(name, <<>>, KeyError)
    ELSE log_runner_event(cfg, name, result, event_type, result.item, FALSE)

----------------------------------------------------------------------------
(* v2_playbook_on_stats *)

\* Host names, and each as the code points Python compares strings by
HostPool == <<"web01", "db01", "web", "app01">>
Hosts == {HostPool[i] : i \in 1..NumHosts}

ord ==
    [web01 |-> <<119, 101, 98, 48, 49>>, db01 |-> <<100, 98, 48, 49>>,
     web |-> <<119, 101, 98>>, app01 |-> <<97, 112, 112, 48, 49>>]

\* a < b for sequences of code points
RECURSIVE LexLess(_, _)
LexLess(a, b) ==
    IF b = <<>> THEN FALSE
    ELSE IF a = <<>> THEN TRUE
    ELSE IF Head(a) # Head(b) THEN Head(a) < Head(b)
    ELSE LexLess(Tail(a), Tail(b))

\* sorted(keys) of strings
RECURSIVE sorted(_)
sorted(S) ==
    IF S = {} THEN <<>>
    ELSE LET m == CHOOSE x \in S :
                      \A y \in S \ {x} : LexLess(ord[x], ord[y])
         IN <<m>> \o sorted(S \ {m})

\* A dict of counters as its items, in the dict's order
Counter(k, v) == [k |-> k, v |-> v]

Snapshots ==
    {\* the three of MockStats.summarize
     <<Counter("ok", 5), Counter("changed", 2), Counter("failures", 0),
       Counter("unreachable", 0), Counter("skipped", 1),
       Counter("rescued", 0), Counter("ignored", 0)>>,
     <<Counter("ok", 3), Counter("changed", 0), Counter("failures", 1),
       Counter("unreachable", 0), Counter("skipped", 0),
       Counter("rescued", 1), Counter("ignored", 0)>>,
     <<Counter("ok", 2), Counter("changed", 1), Counter("failures", 0),
       Counter("unreachable", 1), Counter("skipped", 0),
       Counter("rescued", 0), Counter("ignored", 1)>>,
     \* failures and unreachable together
     <<Counter("ok", 0), Counter("changed", 0), Counter("failures", 2),
       Counter("unreachable", 1), Counter("skipped", 0),
       Counter("rescued", 0), Counter("ignored", 0)>>,
     \* nothing counted
     <<Counter("ok", 0), Counter("changed", 0), Counter("failures", 0),
       Counter("unreachable", 0), Counter("skipped", 0),
       Counter("rescued", 0), Counter("ignored", 0)>>,
     \* a summary without the failures counter
     <<Counter("ok", 1), Counter("unreachable", 0)>>}

HasKey(d, k) == \E i \in 1..Len(d) : d[i].k = k
Get(d, k) == d[CHOOSE i \in 1..Len(d) : d[i].k = k].v

\* sum(host_stats.values())
RECURSIVE SumValues(_)
SumValues(d) == IF d = <<>> THEN 0 ELSE Head(d).v + SumValues(Tail(d))

\* the items with a count above zero, in the dict's order
RECURSIVE summary_parts(_)
summary_parts(d) ==
    IF d = <<>> THEN <<>>
    ELSE (IF Head(d).v > 0 THEN <<Head(d)>> ELSE <<>>)
         \o summary_parts(Tail(d))

\* the mutant tests unreachable before failures
host_level_unreachable_first(cfg, host_stats) ==
    IF ~HasKey(host_stats, "failures") THEN Raised(KeyError)
    ELSE IF ~HasKey(host_stats, "unreachable") THEN Raised(KeyError)
    ELSE IF Get(host_stats, "unreachable") > 0
    THEN Returned(syslog_levels.LOG_EMERG)
    ELSE IF Get(host_stats, "failures") > 0
    THEN Returned(syslog_levels.LOG_ERR)
    ELSE get_log_level(cfg, "summary_host")

\* the level of a per-host summary (lines 306-312)
host_level(cfg, host_stats) ==
    IF ~HasKey(host_stats, "failures") THEN Raised(KeyError)
    ELSE IF Get(host_stats, "failures") > 0
    THEN Returned(syslog_levels.LOG_ERR)
    ELSE IF ~HasKey(host_stats, "unreachable") THEN Raised(KeyError)
    ELSE IF Get(host_stats, "unreachable") > 0
    THEN Returned(syslog_levels.LOG_EMERG)
    ELSE get_log_level(cfg, "summary_host")

\* the body of the loop over the hosts, for one host
host_summary(cfg, name, host, host_stats) ==
    LET level == host_level(cfg, host_stats)
        msg == [Message(name, "playbook_summary", Absent)
                   EXCEPT !.target_host = host,
                          !.total_tasks = SumValues(host_stats),
                          !.summary = summary_parts(host_stats)]
    IN IF level.raised # NoException
       THEN Outcome(name, <<>>, level.raised)
       ELSE Outcome(name, <<Send(level.value, msg)>>, NoException)

\* the loop: it ends at the first host whose summary raises
RECURSIVE host_loop(_, _, _, _)
host_loop(cfg, name, stats, hosts) ==
    IF hosts = <<>> THEN Outcome(name, <<>>, NoException)
    ELSE LET one == host_summary(cfg, name, Head(hosts),
                                 stats.summarize[Head(hosts)])
         IN IF one.err # NoException THEN one
            ELSE LET rest == host_loop(cfg, name, stats, Tail(hosts))
                 IN Outcome(name, one.out \o rest.out, rest.err)

\* v2_playbook_on_stats.  stats.processed is the set of its keys.
playbook_on_stats(cfg, name, stats) ==
    LET start == get_log_level(cfg, "summary_start")
        hosts == sorted(stats.processed)
        loop == host_loop(cfg, name, stats, hosts)
        complete == get_log_level(cfg, "summary_complete")
        started == <<Send(start.value,
                          Message(name, "playbook_summary", "started"))>>
    IN IF start.raised # NoException
       THEN Outcome(name, <<>>, start.raised)
       ELSE IF name = NoAttribute
       THEN Outcome(name, <<>>, AttributeError)
       ELSE IF hosts = <<>>
       THEN Outcome(name,
                    started
                    \o <<Send(syslog_levels.LOG_WARNING,
                              Message(name, "playbook_summary",
                                      "no_hosts"))>>,
                    NoException)
       ELSE IF loop.err # NoException
       THEN Outcome(name, started \o loop.out, loop.err)
       ELSE IF complete.raised # NoException
       THEN Outcome(name, started \o loop.out, complete.raised)
       ELSE Outcome(name,
                    started \o loop.out
                    \o <<Send(complete.value,
                              Message(name, "playbook_summary",
                                      "completed"))>>,
                    NoException)

----------------------------------------------------------------------------
(* What the event source can pass to the callbacks *)

Playbooks == {<<"path", "to", "test_playbook.yml">>, <<"site.yml">>}
Plays == {"Test Play - Setup servers", "", "Deploy \"web tier\""}
Tasks == {"Install nginx", "Run \"apt update\""}

ResultKeys ==
    {{}, {"msg"}, {"skip_reason"}, {"item"},
     {"item", "msg", "skip_reason"}}

Results ==
    {Result(h, t, ks, 0) : h \in Hosts, t \in Tasks, ks \in ResultKeys}
    \cup {Result(h, t, {"retries"}, r) :
              h \in Hosts, t \in Tasks, r \in 0..MaxRetries}

AllStats ==
    UNION {{[processed |-> P, summarize |-> f] : f \in [P -> Snapshots]} :
               P \in SUBSET Hosts}

FacilityArgs ==
    {IntArg(n) : n \in 0..MaxFacilityInput}
    \cup {StrArg(s) : s \in DOMAIN syslog_facilities \cup {"nosuchfacility"}}

LevelArgs ==
    {IntArg(n) : n \in 0..MaxLevelInput}
    \cup {StrArg(s) : s \in DOMAIN syslog_levels \cup {UnknownName}}

----------------------------------------------------------------------------
(* State machine *)

NoCall == [op |-> "", arg |-> <<>>, ignore_errors |-> FALSE,
           before |-> NoAttribute]
NoValue == [raised |-> NoException, value |-> -1]

\* __init__: the configuration is loaded, nothing is validated
Init ==
    /\ config \in {load_config(env) : env \in Environments}
    /\ playbook_name = NoAttribute
    /\ pc = "idle"
    /\ call = NoCall
    /\ sent = <<>>
    /\ raised = NoException
    /\ returned = NoValue

\* A callback runs to its end: o is what its code computes, and any of its
\* sendto calls may fail.
Callback(op, arg, ignore_errors, o) ==
    \E failAt \in 0..Len(o.out) :
        LET t == Transport(config, o, failAt)
        IN /\ pc' = "returned"
           /\ call' = [op |-> op, arg |-> arg,
                       ignore_errors |-> ignore_errors,
                       before |-> playbook_name]
           /\ sent' = t.sent
           /\ raised' = t.raised
           /\ playbook_name' = o.name
           /\ UNCHANGED <<config, returned>>

v2_playbook_on_start ==
    /\ pc = "idle"
    /\ \E playbook \in Playbooks :
           Callback("v2_playbook_on_start", playbook, FALSE,
                    playbook_on_start(config, playbook_name, playbook))

v2_playbook_on_play_start ==
    /\ pc = "idle"
    /\ \E play \in Plays :
           Callback("v2_playbook_on_play_start", play, FALSE,
                    playbook_on_play_start(config, playbook_name, play))

v2_playbook_on_task_start ==
    /\ pc = "idle"
    /\ \E task \in Tasks :
           Callback("v2_playbook_on_task_start", task, FALSE,
                    playbook_on_task_start(config, playbook_name, task))

v2_runner_on_ok ==
    /\ pc = "idle"
    /\ \E result \in Results :
           Callback("v2_runner_on_ok", result, FALSE,
                    log_runner_event(config, playbook_name, result, "ok",
                                     Absent, FALSE))

v2_runner_on_changed ==
    /\ pc = "idle"
    /\ \E result \in Results :
           Callback("v2_runner_on_changed", result, FALSE,
                    log_runner_event(config, playbook_name, result, "changed",
                                     Absent, FALSE))

v2_runner_on_failed ==
    /\ pc = "idle"
    /\ \E result \in Results, ignore_errors \in BOOLEAN :
           Callback("v2_runner_on_failed", result, ignore_errors,
                    log_runner_event(config, playbook_name, result, "failed",
                                     Absent, ignore_errors))

v2_runner_on_unreachable ==
    /\ pc = "idle"
    /\ \E result \in Results :
           Callback("v2_runner_on_unreachable", result, FALSE,
                    log_runner_event(config, playbook_name, result,
                                     "unreachable", Absent, FALSE))

v2_runner_on_skipped ==
    /\ pc = "idle"
    /\ \E result \in Results :
           Callback("v2_runner_on_skipped", result, FALSE,
                    log_runner_event(config, playbook_name, result, "skipped",
                                     Absent, FALSE))

v2_runner_retry ==
    /\ pc = "idle"
    /\ \E result \in Results :
           Callback("v2_runner_retry", result, FALSE,
                    log_runner_event(config, playbook_name, result, "retry",
                                     Absent, FALSE))

v2_runner_item_on_ok ==
    /\ pc = "idle"
    /\ \E result \in Results :
           Callback("v2_runner_item_on_ok", result, FALSE,
                    runner_item_event(config, playbook_name, result, "ok"))

v2_runner_item_on_failed ==
    /\ pc = "idle"
    /\ \E result \in Results :
           Callback("v2_runner_item_on_failed", result, FALSE,
                    runner_item_event(config, playbook_name, result, "failed"))

v2_runner_item_on_skipped ==
    /\ pc = "idle"
    /\ \E result \in Results :
           Callback("v2_runner_item_on_skipped", result, FALSE,
                    runner_item_event(config, playbook_name, result, "skipped"))

v2_playbook_on_stats ==
    /\ pc = "idle"
    /\ \E stats \in AllStats :
           Callback("v2_playbook_on_stats", stats, FALSE,
                    playbook_on_stats(config, playbook_name, stats))

\* The event source goes on to its next event, whether the callback
\* returned or raised.
NextEvent ==
    /\ pc = "returned"
    /\ pc' = "idle"
    /\ call' = NoCall
    /\ sent' = <<>>
    /\ raised' = NoException
    /\ returned' = NoValue
    /\ UNCHANGED <<config, playbook_name>>

Next ==
    \/ v2_playbook_on_start
    \/ v2_playbook_on_play_start
    \/ v2_playbook_on_task_start
    \/ v2_runner_on_ok
    \/ v2_runner_on_changed
    \/ v2_runner_on_failed
    \/ v2_runner_on_unreachable
    \/ v2_runner_on_skipped
    \/ v2_runner_retry
    \/ v2_runner_item_on_ok
    \/ v2_runner_item_on_failed
    \/ v2_runner_item_on_skipped
    \/ v2_playbook_on_stats
    \/ NextEvent

Spec == Init /\ [][Next]_vars

----------------------------------------------------------------------------
(* make_priority on its own: the class method called with any arguments *)

InitPriority ==
    /\ config = load_config(NoEnv)
    /\ playbook_name = NoAttribute
    /\ pc = "idle"
    /\ call = NoCall
    /\ sent = <<>>
    /\ raised = NoException
    /\ returned = NoValue

CallMakePriority ==
    \E facility \in FacilityArgs, level \in LevelArgs :
        /\ pc = "idle"
        /\ pc' = "returned"
        /\ call' = [op |-> "make_priority",
                    arg |-> [facility |-> facility, level |-> level],
                    ignore_errors |-> FALSE, before |-> playbook_name]
        /\ returned' = make_priority(facility, level)
        /\ UNCHANGED <<config, playbook_name, sent, raised>>

NextPriority ==
    \/ CallMakePriority
    \/ NextEvent

SpecPriority == InitPriority /\ [][NextPriority]_vars

----------------------------------------------------------------------------
(* Reading a datagram *)

\* priority & 7 and priority >> 3
Severity(d) == d.priority % 8
Facility(d) == d.priority \div 8

IsSummaryStart(d) ==
    /\ d.message.subject = "playbook_summary"
    /\ d.message.status = "started"
IsSummaryHost(d) ==
    /\ d.message.subject = "playbook_summary"
    /\ d.message.target_host # Absent
IsSummaryComplete(d) ==
    /\ d.message.subject = "playbook_summary"
    /\ d.message.status = "completed"
IsSummaryNoHosts(d) ==
    /\ d.message.subject = "playbook_summary"
    /\ d.message.status = "no_hosts"

Ended(op) == pc = "returned" /\ call.op = op

----------------------------------------------------------------------------
(* C1 *)

IsFacility(a) ==
    IF a.int THEN a.n \in 0..23 ELSE a.s \in DOMAIN syslog_facilities
IsLevel(a) ==
    IF a.int THEN a.n \in 0..7 ELSE a.s \in DOMAIN syslog_levels
FacilityCode(a) == IF a.int THEN a.n ELSE syslog_facilities[a.s]
LevelCode(a) == IF a.int THEN a.n ELSE syslog_levels[a.s]

\* C1: for every facility 0..23 and severity 0..7, given as a code or as a
\* name of the 24-entry and 8-entry tables, make_priority returns p with
\* p >> 3 the facility code and p & 7 the severity code; and
\* make_priority('user', 'LOG_ERR') = make_priority(1, 3) = 11.
C1_PriorityRoundTrip ==
    /\ {syslog_facilities[k] : k \in DOMAIN syslog_facilities} = 0..23
    /\ Cardinality(DOMAIN syslog_facilities) = 24
    /\ {syslog_levels[k] : k \in DOMAIN syslog_levels} = 0..7
    /\ Cardinality(DOMAIN syslog_levels) = 8
    /\ (Ended("make_priority")
        /\ IsFacility(call.arg.facility) /\ IsLevel(call.arg.level))
       => /\ returned.raised = NoException
          /\ returned.value \div 8 = FacilityCode(call.arg.facility)
          /\ returned.value % 8 = LevelCode(call.arg.level)
          /\ (/\ call.arg.facility \in {StrArg("user"), IntArg(1)}
              /\ call.arg.level \in {StrArg("LOG_ERR"), IntArg(3)})
             => returned.value = 11

C1_Witness ==
    /\ Ended("make_priority")
    /\ call.arg.facility = StrArg("local7")
    /\ call.arg.level = StrArg("LOG_DEBUG")
    /\ returned = Returned(191)

----------------------------------------------------------------------------
(* C2, C3 *)

\* every summary of the run has the counters the level test reads
WellFormed(stats) ==
    \A h \in stats.processed :
        /\ HasKey(stats.summarize[h], "failures")
        /\ HasKey(stats.summarize[h], "unreachable")

\* sent is SummaryStart, one SummaryHost per target in ascending order of
\* the target's name, SummaryComplete, and nothing else
IsFullSummary(targets) ==
    LET n == Cardinality(targets)
    IN /\ Len(sent) = n + 2
       /\ IsSummaryStart(sent[1])
       /\ IsSummaryComplete(sent[n + 2])
       /\ \A i \in 2..(n + 1) : IsSummaryHost(sent[i])
       /\ {sent[i].message.target_host : i \in 2..(n + 1)} = targets
       /\ \A i, j \in 2..(n + 1) :
              i < j => LexLess(ord[sent[i].message.target_host],
                               ord[sent[j].message.target_host])

\* C2: at the end of a run with a non-empty target set, v2_playbook_on_stats
\* sends exactly one SummaryStart, then one SummaryHost per target in
\* ascending order of the target's name, then one SummaryComplete.
\* (Stated for a started run, summaries that have their counters, and
\* sends that succeed.)
C2_SummarySequence ==
    (/\ Ended("v2_playbook_on_stats")
     /\ call.before # NoAttribute
     /\ call.arg.processed # {}
     /\ WellFormed(call.arg)
     /\ raised # SocketError)
    => IsFullSummary(call.arg.processed)

\* The sequence of C2 is what is sent whenever the callback returns: it is
\* cut short only by an exception.
StatsSequenceOnReturn ==
    (/\ Ended("v2_playbook_on_stats")
     /\ call.arg.processed # {}
     /\ raised = NoException)
    => IsFullSummary(call.arg.processed)

\* C3: with an empty target set v2_playbook_on_stats sends exactly one
\* message, SummaryNoHosts, and no SummaryStart, SummaryHost or
\* SummaryComplete.  (Stated for the calls that return.)
C3_OnlyNoHosts ==
    (/\ Ended("v2_playbook_on_stats")
     /\ call.arg.processed = {}
     /\ raised = NoException)
    => /\ Len(sent) = 1
       /\ IsSummaryNoHosts(sent[1])

----------------------------------------------------------------------------
(* C4, C5 *)

\* C4: every per-host summary message has severity ERR if the host's
\* failures counter is above zero (whatever unreachable is), otherwise EMERG
\* if unreachable is above zero, otherwise the configured level_summary_host;
\* rescued, ignored and the configured level play no part in the first two.
C4_HostSeverityPrecedence ==
    Ended("v2_playbook_on_stats")
    => \A i \in 1..Len(sent) :
           IsSummaryHost(sent[i])
           => LET host_stats ==
                      call.arg.summarize[sent[i].message.target_host]
              IN Severity(sent[i]) =
                     IF Get(host_stats, "failures") > 0
                     THEN syslog_levels.LOG_ERR
                     ELSE IF Get(host_stats, "unreachable") > 0
                     THEN syslog_levels.LOG_EMERG
                     ELSE syslog_levels[config.level["summary_host"]]

\* a host with failures and unreachable both above zero is reported at ERR
\* under a configured level that is neither ERR nor EMERG
C4_Witness ==
    /\ Ended("v2_playbook_on_stats")
    /\ config.level["summary_host"] = "LOG_DEBUG"
    /\ \E i \in 1..Len(sent) :
           /\ IsSummaryHost(sent[i])
           /\ LET host_stats ==
                      call.arg.summarize[sent[i].message.target_host]
              IN /\ Get(host_stats, "failures") > 0
                 /\ Get(host_stats, "unreachable") > 0
           /\ Severity(sent[i]) = 3

\* C5: a task-failed event with ignore_errors true is sent at NOTICE (5)
\* whatever level_failed is configured; with ignore_errors false it is sent
\* at the configured level_failed.
C5_IgnoredFailureIsNotice ==
    Ended("v2_runner_on_failed")
    => /\ raised = NoException => Len(sent) = 1
       /\ \A i \in 1..Len(sent) :
              /\ sent[i].message.status = "failed"
              /\ Severity(sent[i]) =
                     IF call.ignore_errors THEN 5
                     ELSE syslog_levels[config.level["failed"]]

\* an ignored failure is sent at NOTICE although level_failed is LOG_EMERG
C5_Witness ==
    /\ Ended("v2_runner_on_failed")
    /\ call.ignore_errors
    /\ config.level["failed"] = "LOG_EMERG"
    /\ Len(sent) = 1
    /\ Severity(sent[1]) = 5

----------------------------------------------------------------------------
(* C6 .. C10: what the callbacks do when something is missing or fails *)

\* every configured level name is a name of syslog_levels
ConfigResolves ==
    \A k \in EventTypes : config.level[k] \in DOMAIN syslog_levels

\* C6: before any playbook-start event, every other callback raises
\* OrderingError and sends nothing, and the translator stays uninitialized.
C6_OrderingError ==
    (/\ pc = "returned"
     /\ call.op # "v2_playbook_on_start"
     /\ call.before = NoAttribute)
    => /\ raised = "OrderingError"
       /\ sent = <<>>
       /\ playbook_name = NoAttribute

\* What holds instead: the callback ends with the AttributeError of the
\* missing _playbook_name, or with a KeyError raised before the name is
\* read; nothing is sent and the attribute stays unset.
UninitializedCallbackRaises ==
    (/\ pc = "returned"
     /\ call.op # "v2_playbook_on_start"
     /\ call.before = NoAttribute)
    => /\ raised \in {AttributeError, KeyError}
       /\ sent = <<>>
       /\ playbook_name = NoAttribute

\* C7: a failure of the datagram send never propagates into the event
\* callback: every callback returns normally.
C7_SendFailureSwallowed ==
    pc = "returned" => raised # SocketError

\* the result key whose value a callback puts into its message
DetailKey ==
    [v2_runner_on_failed |-> "msg", v2_runner_on_unreachable |-> "msg",
     v2_runner_on_skipped |-> "skip_reason", v2_runner_retry |-> "retries",
     v2_runner_item_on_failed |-> "msg",
     v2_runner_item_on_skipped |-> "skip_reason"]

\* C8: for a failed, unreachable, skipped or retry event whose result lacks
\* its detail field (msg, skip_reason, retries) the callback still sends
\* exactly one message and raises no error.  (Stated for a started run, a
\* configuration whose names resolve, a result that has its item when the
\* callback is an item callback, and a send that succeeds.)
C8_MissingDetailPlaceholder ==
    (/\ pc = "returned"
     /\ call.op \in DOMAIN DetailKey
     /\ call.before # NoAttribute
     /\ ConfigResolves
     /\ raised # SocketError
     /\ DetailKey[call.op] \notin call.arg.keys
     /\ (call.op \in {"v2_runner_item_on_failed",
                      "v2_runner_item_on_skipped"}
         => "item" \in call.arg.keys))
    => /\ raised = NoException
       /\ Len(sent) = 1

\* C9: if a step of the end-of-run statistics processing raises, the
\* failure is itself sent as a syslog message before v2_playbook_on_stats
\* ends.  (Stated for a started run, a configuration whose names resolve
\* and sends that succeed: what raises is the processing of a summary.)
C9_StatsErrorReported ==
    (/\ Ended("v2_playbook_on_stats")
     /\ call.before # NoAttribute
     /\ ConfigResolves
     /\ raised \notin {NoException, SocketError})
    => \E i \in 1..Len(sent) : sent[i].message.error # Absent

\* C10: once construction has succeeded, no event callback fails because a
\* configured level name does not resolve.  (Stated for the callbacks that
\* read no key of a result: their only lookup is the level's.)
C10_NoLevelLookupFailure ==
    (/\ pc = "returned"
     /\ call.op \in {"v2_playbook_on_start", "v2_playbook_on_play_start",
                     "v2_playbook_on_task_start", "v2_runner_on_ok",
                     "v2_runner_on_changed"})
    => raised # KeyError

----------------------------------------------------------------------------
(* C11, C13 *)

\* C11: every message sent during a session carries a priority whose
\* facility part (priority >> 3) is the code of the configured
\* syslog_facility; only the severity part varies.  (Stated for a
\* configured facility that is a name of syslog_facilities.)
C11_FacilityIsConfigured ==
    (/\ pc = "returned"
     /\ config.syslog_facility \in DOMAIN syslog_facilities)
    => \A i \in 1..Len(sent) :
           Facility(sent[i]) = syslog_facilities[config.syslog_facility]

\* What holds instead: the facility part is always that of 'user'.
FacilityIsUser ==
    pc = "returned"
    => \A i \in 1..Len(sent) : Facility(sent[i]) = syslog_facilities.user

\* C13: make_priority never silently wraps: given a raw facility code
\* outside 0..23 or a raw severity code outside 0..7 it rejects or clamps,
\* so every priority it returns is in 0..191 and an oversized severity does
\* not spill into the facility bits.
C13_PriorityNeverWraps ==
    (Ended("make_priority") /\ returned.raised = NoException)
    => /\ returned.value \in 0..191
       /\ IsFacility(call.arg.facility)
          => returned.value \div 8 = FacilityCode(call.arg.facility)

----------------------------------------------------------------------------
(* C12 *)

\* How a reader splits a payload: at the spaces outside double quotes, a
\* backslash taking the next character literally (92 is the backslash, 34
\* the double quote, 32 the space).
\* t[i] is escaped: the backslashes directly before it are odd in number
Escaped(t, i) ==
    /\ i > 1
    /\ t[i - 1] = 92
    /\ LET start == CHOOSE s \in 1..(i - 1) :
                        /\ \A j \in s..(i - 1) : t[j] = 92
                        /\ s = 1 \/ t[s - 1] # 92
       IN (i - start) % 2 = 1

\* the positions of the double quotes of t that no backslash escapes
QuoteMarks(t) == {i \in 1..Len(t) : t[i] = 34 /\ ~Escaped(t, i)}

\* the positions of the spaces of t that separate two tokens
Separators(t) ==
    LET q == QuoteMarks(t)
    IN {i \in 1..Len(t) : /\ t[i] = 32
                          /\ ~Escaped(t, i)
                          /\ Cardinality({j \in q : j < i}) % 2 = 0}

\* a token starts at each character that follows a separator or nothing
TokenCount(t) ==
    LET sep == Separators(t)
    IN Cardinality({i \in 1..Len(t) :
                        i \notin sep /\ (i = 1 \/ (i - 1) \in sep)})

UnescapedQuotes(t) == Cardinality(QuoteMarks(t))

\* the same message with a value that has neither quote nor space in each
\* quoted field
Plain(m) ==
    [m EXCEPT !.name = IF @ = Absent THEN @ ELSE "nginx",
              !.item = IF @ = Absent THEN @ ELSE "nginx",
              !.error = IF @ = Absent THEN @ ELSE "nginx",
              !.reason = IF @ = Absent THEN @ ELSE "nginx"]

HasQuotedValue(m) == m.subject \in {"play", "task", "runner"}

\* C12: whatever double quotes or spaces a task name, play name, item,
\* error or reason contains, the payload renders it inside double quotes
\* with each internal double quote escaped, so it splits into the same
\* number of space-delimited key=value tokens as with a plain value.
C12_QuotedValuesKeepTokens ==
    pc = "returned"
    => \A i \in 1..Len(sent) :
           HasQuotedValue(sent[i].message)
           => /\ TokenCount(sent[i].text) =
                     TokenCount(payload(Plain(sent[i].message)))
              /\ UnescapedQuotes(sent[i].text) =
                     UnescapedQuotes(payload(Plain(sent[i].message)))

\* What holds: a value with spaces but no double quote stays one token.
SpacesKeepTokens ==
    pc = "returned"
    => \A i \in 1..Len(sent) :
           (/\ HasQuotedValue(sent[i].message)
            /\ sent[i].message.name
                   \notin {"Run \"apt update\"", "Deploy \"web tier\""})
           => TokenCount(sent[i].text) =
                  TokenCount(payload(Plain(sent[i].message)))

====
